---- MODULE Spec2Model ----
(***************************************************************************)
(* pycelerograph: the CSV ingestion (read_results), the aggregation        *)
(* (collect_experiments, plot_measure) and the report driver               *)
(* (generate_html_reports, generate_reports) of src/celerograph.py.        *)
(*                                                                         *)
(* Python values are modelled as follows.                                  *)
(*   str            a TLA+ string                                          *)
(*   list           a sequence                                             *)
(*   dict           a sequence of [key, value] records in insertion order  *)
(*   int            [type |-> "int", num |-> n, den |-> 1]                 *)
(*   float          [type |-> "float", num |-> n, den |-> d], n/d reduced  *)
(*   a call         [ok |-> TRUE, err |-> "", value |-> v] when it returns *)
(*                  [ok |-> FALSE, err |-> <exception>, value |-> None]    *)
(*                  when it raises                                         *)
(***************************************************************************)
EXTENDS Integers, Sequences, FiniteSets, TLC

VARIABLES
    header,     \* read_results: header, <<>> before row 0 is read
    i,          \* read_results: the number of rows read (enumerate)
    data,       \* read_results: data
    status,     \* read_results: "reading", "returned" or "raised"
    error,      \* the exception that ended read_results, "" when none
    result,     \* the value read_results returned, None before and on raise
    consumed,   \* the rows read after the header, in order
    collected,  \* plot_measure: d, the outcome of collect_experiments
    plotted,    \* the outcome of plot_measure, NotCalled before the call
    csv_files,  \* generate_reports: csv_files
    file_no,    \* generate_reports: the position of filename in csv_files
    pc,         \* generate_reports: the line the run is at
    parsed,     \* generate_reports: data of the file being reported
    group_no,   \* generate_html_reports: the position of the loop in data
    group_html, \* generate_html_reports: html_files
    html_files, \* generate_reports: html_files
    saved,      \* the reports written by save(), in order
    index_html, \* index.html: whether it was written, and its entries
    failed_in   \* the call whose exception ended the run, None when none

\* ------------------------------------------------------------------ bounds

\* Largest number of rows read after the header row.
MaxRows == 4

\* Largest number of csv files handed to generate_reports.
MaxFiles == 2

\* ------------------------------------------------------------------ inputs

\* The header rows read.
Headers == {
    <<"Group", "Experiment", "Problem space", "Baseline">>,
    <<"group", "EXPERIMENT", "problem SPACE", "baseline">>,
    <<"Group", "Experiment", "Baseline", "baseline">>,
    <<"Group", "Experiment", "Baseline", "Problem space", "BASELINE">>,
    <<"Group", "Experiment", "Problem space", "Bogus Column">>,
    <<"Group", "Experiment">> }

\* A well-formed data row of n columns: the size in column 2, the
\* experiment's ratio in every later column.
DataRow(group_name, experiment_name, size, n) ==
    SubSeq(<<group_name, experiment_name, size>>
              \o [k \in 1..(n - 3) |->
                     IF experiment_name = "ExpA" THEN "1.0" ELSE "2.0"],
           1, n)

\* The rows a file with the given header may hold after it.
Rows(hdr) ==
    { DataRow("G1", e, size, Len(hdr)) : e \in {"ExpA", "ExpB"}, size \in {"10", "20"} }
    \cup { DataRow("G2", "ExpA", "10", Len(hdr)) }
    \cup { hdr }
    \cup { <<"G1", "ExpA", "N/A", "1.0">>, <<"G1", "ExpA", "10">>, <<"Baseline">> }

\* The file read by read_results.
ParseFile == "results/bench.csv"

\* ----------------------------------------------------------------- strings

None == "None"

UpperCase == "ABCDEFGHIJKLMNOPQRSTUVWXYZ"

LowerCase == "abcdefghijklmnopqrstuvwxyz"

Digits == "0123456789"

CharAt(s, p) == SubSeq(s, p, p)

RECURSIVE FindFrom(_, _, _)
FindFrom(s, c, p) ==
    IF p > Len(s) THEN 0
    ELSE IF CharAt(s, p) = c THEN p
    ELSE FindFrom(s, c, p + 1)

\* The 1-based position of the first c in s, 0 when absent (str.find + 1).
Find(s, c) == FindFrom(s, c, 1)

RECURSIVE RFindFrom(_, _, _)
RFindFrom(s, c, p) ==
    IF p < 1 THEN 0
    ELSE IF CharAt(s, p) = c THEN p
    ELSE RFindFrom(s, c, p - 1)

\* The 1-based position of the last c in s, 0 when absent (str.rfind + 1).
RFind(s, c) == RFindFrom(s, c, Len(s))

\* The lower-case letter of every upper-case letter.
LowerOf ==
    [c \in {CharAt(UpperCase, k) : k \in 1..Len(UpperCase)} |->
        CharAt(LowerCase, Find(UpperCase, c))]

LowerChar(c) == IF c \in DOMAIN LowerOf THEN LowerOf[c] ELSE c

RECURSIVE LowerFrom(_, _)
LowerFrom(s, k) ==
    IF k > Len(s) THEN "" ELSE LowerChar(CharAt(s, k)) \o LowerFrom(s, k + 1)

\* The lower-case form of every string of the inputs, computed once.
Lowered ==
    [s \in UNION { { hdr[k] : k \in 1..Len(hdr) } \cup
                   UNION { { row[k] : k \in 1..Len(row) } : row \in Rows(hdr) } :
                   hdr \in Headers } |-> LowerFrom(s, 1)]

\* str.lower()
lower(s) == IF s \in DOMAIN Lowered THEN Lowered[s] ELSE LowerFrom(s, 1)

\* os.path.basename: what follows the last slash.
basename(path) == SubSeq(path, RFind(path, "/") + 1, Len(path))

RECURSIVE AllDots(_, _)
\* Every character of s before position p is a dot.
AllDots(s, p) ==
    IF p <= 1 THEN TRUE
    ELSE CharAt(s, p - 1) = "." /\ AllDots(s, p - 1)

\* os.path.splitext(path)[0]: the path without its extension; the last dot
\* starts an extension when it follows the last slash and is not among the
\* leading dots of the file name.
splitext_root(path) ==
    LET dot   == RFind(path, ".")
        slash == RFind(path, "/")
        name  == SubSeq(path, slash + 1, Len(path))
    IN  IF dot > slash /\ ~AllDots(name, dot - slash)
        THEN SubSeq(path, 1, dot - 1)
        ELSE path

\* os.path.join(a, b) for a relative b.
join(a, b) ==
    IF a = "" \/ CharAt(a, Len(a)) = "/" THEN a \o b ELSE a \o "/" \o b

\* a in b (substring test on str)
StrIn(a, b) ==
    \E p \in 0..(Len(b) - Len(a)) : SubSeq(b, p + 1, p + Len(a)) = a

\* ------------------------------------------------------------------- dicts

DictHas(d, k) == \E p \in 1..Len(d) : d[p].key = k

DictIndex(d, k) == CHOOSE p \in 1..Len(d) : d[p].key = k

DictGet(d, k) == d[DictIndex(d, k)].value

\* d[k] = v: an existing key keeps its position, a new key goes last.
DictSet(d, k, v) ==
    IF DictHas(d, k)
    THEN [d EXCEPT ![DictIndex(d, k)] = [key |-> k, value |-> v]]
    ELSE Append(d, [key |-> k, value |-> v])

DictKeys(d) == [p \in 1..Len(d) |-> d[p].key]

DictValues(d) == [p \in 1..Len(d) |-> d[p].value]

\* ------------------------------------------------------------------- calls

Return(v) == [ok |-> TRUE, err |-> "", value |-> v]

Raise(e) == [ok |-> FALSE, err |-> e, value |-> None]

\* The outcome of a call that was not made.
NotCalled == [ok |-> FALSE, err |-> "", value |-> None]

\* ------------------------------------------------------------------ Column

\* The members of the Column enumeration, in definition order.
Column == <<
    [name |-> "group",             value |-> "Group"],
    [name |-> "experiment",        value |-> "Experiment"],
    [name |-> "problem_space",     value |-> "Problem space"],
    [name |-> "samples",           value |-> "Samples"],
    [name |-> "iterations",        value |-> "Iterations"],
    [name |-> "failure",           value |-> "Failure"],
    [name |-> "baseline",          value |-> "Baseline"],
    [name |-> "iteration_time",    value |-> "us/Iteration"],
    [name |-> "iteration_per_sec", value |-> "Iterations/sec"],
    [name |-> "min_time",          value |-> "Min (us)"],
    [name |-> "max_time",          value |-> "Max (us)"],
    [name |-> "mean_time",         value |-> "Mean (us)"],
    [name |-> "variance",          value |-> "Variance"],
    [name |-> "stddev",            value |-> "Standard Deviation"],
    [name |-> "skweness",          value |-> "Skewness"],
    [name |-> "kurtosis",          value |-> "Kurtosis"],
    [name |-> "zscore",            value |-> "Z Score"] >>

\* member.value.lower() of every member, computed once.
ColumnLower == [p \in 1..Len(Column) |-> lower(Column[p].value)]

RECURSIVE MemberFrom(_, _)
\* The loop over cls.__members__.values() from member k on: the index of the
\* first member whose lower-cased value is n, 0 when the loop ends.
MemberFrom(n, k) ==
    IF k > Len(Column) THEN 0
    ELSE IF ColumnLower[k] = n THEN k
    ELSE MemberFrom(n, k + 1)

\* Column.from_name with the return after the loop: the loop variable, which
\* is the last member when nothing matched.
Column_from_name_fallthrough(column_name) ==
    LET k == MemberFrom(lower(column_name), 1)
    IN  IF k = 0 THEN Column[Len(Column)].name ELSE Column[k].name

\* Column.from_name: the first member whose value equals column_name up to
\* case, None when the loop ends without a match.
Column_from_name(column_name) ==
    LET k == MemberFrom(lower(column_name), 1)
    IN  IF k = 0 THEN None ELSE Column[k].name

\* Column.is_name comparing the values as written, without lower().
Column_is_name_exact(column_name) ==
    \E k \in 1..Len(Column) : Column[k].value = column_name

\* Column.is_name
Column_is_name(column_name) == MemberFrom(lower(column_name), 1) # 0

\* ------------------------------------------------------------- read_number

DigitSet == {CharAt(Digits, k) : k \in 1..Len(Digits)}

IsDigits(s) == Len(s) > 0 /\ \A p \in 1..Len(s) : CharAt(s, p) \in DigitSet

RECURSIVE DigitsValue(_)
DigitsValue(s) ==
    IF s = "" THEN 0
    ELSE 10 * DigitsValue(SubSeq(s, 1, Len(s) - 1)) + (Find(Digits, CharAt(s, Len(s))) - 1)

RECURSIVE Pow10(_)
Pow10(n) == IF n = 0 THEN 1 ELSE 10 * Pow10(n - 1)

RECURSIVE Gcd(_, _)
Gcd(a, b) == IF b = 0 THEN a ELSE Gcd(b, a % b)

\* The literal without its sign, and the sign.
Unsigned(s) ==
    IF Len(s) > 0 /\ CharAt(s, 1) \in {"+", "-"} THEN SubSeq(s, 2, Len(s)) ELSE s

Sign(s) == IF Len(s) > 0 /\ CharAt(s, 1) = "-" THEN -1 ELSE 1

\* int(string_value) for decimal literals [+-]digits; anything else is a
\* ValueError.
ParseInt(string_value) ==
    IF IsDigits(Unsigned(string_value))
    THEN Return([type |-> "int",
                 num |-> Sign(string_value) * DigitsValue(Unsigned(string_value)),
                 den |-> 1])
    ELSE Raise("ValueError")

\* float(string_value) for literals [+-]digits.digits with a digit on at
\* least one side of the point, or [+-]digits; anything else is a ValueError.
ParseFloat(string_value) ==
    LET u    == Unsigned(string_value)
        p    == Find(u, ".")
        ip   == IF p = 0 THEN u ELSE SubSeq(u, 1, p - 1)
        fp   == IF p = 0 THEN "" ELSE SubSeq(u, p + 1, Len(u))
        wf   == /\ ip = "" \/ IsDigits(ip)
                /\ fp = "" \/ IsDigits(fp)
                /\ Len(ip) + Len(fp) > 0
        n    == DigitsValue(ip) * Pow10(Len(fp)) + DigitsValue(fp)
        d    == Pow10(Len(fp))
        g    == Gcd(d, n)
    IN  IF wf
        THEN Return([type |-> "float",
                     num |-> Sign(string_value) * (n \div g),
                     den |-> d \div g])
        ELSE Raise("ValueError")

\* read_number swallowing the ValueError of float() and returning 0.
read_number_lenient(string_value) ==
    LET as_int   == ParseInt(string_value)
        as_float == ParseFloat(string_value)
    IN  IF as_int.ok THEN as_int
        ELSE IF as_float.ok THEN as_float
        ELSE Return([type |-> "int", num |-> 0, den |-> 1])

\* read_number: int first, float when int raises ValueError.
read_number(string_value) ==
    LET as_int == ParseInt(string_value)
    IN  IF as_int.ok THEN as_int ELSE ParseFloat(string_value)

\* ------------------------------------------------------------ read_results

\* The result set before the first row: data = {}.
EmptyData == <<>>

\* Lines 95-98: the group entry is created on the group's first row and
\* keeps the file of that first row.
EnsureGroup(d, group_name, csv_file) ==
    IF DictHas(d, group_name)
    THEN d
    ELSE DictSet(d, group_name, [file        |-> basename(csv_file),
                                 experiments |-> <<>>])

\* Lines 100-103: the experiment entry is created on its first row.
EnsureExperiment(experiments, experiment_name) ==
    IF DictHas(experiments, experiment_name)
    THEN experiments
    ELSE DictSet(experiments, experiment_name, <<>>)

\* series.insert(0, ...) in place of series.append(...).
AppendValue_front(experiment, measure, v) ==
    IF DictHas(experiment, measure)
    THEN DictSet(experiment, measure, <<v>> \o DictGet(experiment, measure))
    ELSE DictSet(experiment, measure, <<v>>)

\* series.append(...) on experiment[measure], created empty when missing.
AppendValue(experiment, measure, v) ==
    IF DictHas(experiment, measure)
    THEN DictSet(experiment, measure, Append(DictGet(experiment, measure), v))
    ELSE DictSet(experiment, measure, <<v>>)

RECURSIVE AppendMeasures(_, _, _, _)
\* Lines 106-112, from header column j (1-based) on: resolve the label,
\* read the cell, append it.
AppendMeasures(experiment, h, row, j) ==
    IF j > Len(h) THEN Return(experiment)
    ELSE LET measure == Column_from_name(h[j])
             number  == read_number(row[j])
         IN  IF measure = None THEN Raise("AssertionError")
             ELSE IF j > Len(row) THEN Raise("IndexError")
             ELSE IF ~number.ok THEN Raise(number.err)
             ELSE AppendMeasures(AppendValue(experiment, measure, number.value),
                                 h, row, j + 1)

RECURSIVE SeriesSizesFrom(_, _, _)
\* Lines 116-119 from header column j (1-based) on.
SeriesSizesFrom(experiment, h, j) ==
    IF j > Len(h) THEN <<>>
    ELSE <<Len(DictGet(experiment, Column_from_name(h[j])))>>
             \o SeriesSizesFrom(experiment, h, j + 1)

\* Lines 115-119: the length of the series of every measure column.
SeriesSizes(experiment, h) == SeriesSizesFrom(experiment, h, 3)

\* The validation comparing only the first and the last size.
SizesAgree_ends(series_sizes) ==
    \/ Len(series_sizes) = 0
    \/ series_sizes[1] = series_sizes[Len(series_sizes)]

\* Line 120: series_sizes[1:] == series_sizes[:-1]
SizesAgree(series_sizes) ==
    \/ Len(series_sizes) = 0
    \/ SubSeq(series_sizes, 2, Len(series_sizes))
         = SubSeq(series_sizes, 1, Len(series_sizes) - 1)

\* Line 92: the row repeats a header. row[1] is read only when row[0]
\* is a column name.
IsRepeatedHeader(row) == Column_is_name(row[1]) /\ Column_is_name(row[2])

\* Lines 95-120 for a row that is not skipped.
AddRow(d, h, row, csv_file) ==
    IF Len(row) < 2 THEN Raise("IndexError")
    ELSE
    LET group_name      == row[1]
        data1           == EnsureGroup(d, group_name, csv_file)
        group           == DictGet(data1, group_name)
        experiment_name == row[2]
        experiments     == EnsureExperiment(group.experiments, experiment_name)
        appended        == AppendMeasures(DictGet(experiments, experiment_name),
                                          h, row, 3)
    IN  IF ~appended.ok THEN Raise(appended.err)
        ELSE IF ~SizesAgree(SeriesSizes(appended.value, h))
        THEN Raise("AssertionError")
        ELSE Return(DictSet(data1, group_name,
                 [group EXCEPT !.experiments =
                     DictSet(experiments, experiment_name, appended.value)]))

\* One iteration of the loop of line 86 for i > 0.
ProcessRow(d, h, row, csv_file) ==
    IF Len(row) = 0 THEN Raise("IndexError")
    ELSE IF Column_is_name(row[1]) /\ Len(row) < 2 THEN Raise("IndexError")
    ELSE IF IsRepeatedHeader(row) THEN Return(d)
    ELSE AddRow(d, h, row, csv_file)

RECURSIVE ReadRows_partial(_, _, _, _)
\* The loop ends at the first row that raises and keeps what it has read.
ReadRows_partial(d, h, rows, csv_file) ==
    IF rows = <<>> THEN Return(d)
    ELSE LET r == ProcessRow(d, h, Head(rows), csv_file)
         IN  IF r.ok THEN ReadRows_partial(r.value, h, Tail(rows), csv_file)
             ELSE Return(d)

RECURSIVE ReadRows(_, _, _, _)
\* The loop of line 86 over the rows after the header.
ReadRows(d, h, rows, csv_file) ==
    IF rows = <<>> THEN Return(d)
    ELSE LET r == ProcessRow(d, h, Head(rows), csv_file)
         IN  IF r.ok THEN ReadRows(r.value, h, Tail(rows), csv_file) ELSE r

\* read_results on a file given as its rows, the header row first.
read_results(csv_file, rows) ==
    IF rows = <<>> THEN Return(EmptyData)
    ELSE ReadRows(EmptyData, Head(rows), Tail(rows), csv_file)

\* ----------------------------------------------------- collect_experiments

RECURSIVE CollectFrom(_, _, _, _)
\* The loop of lines 126-136 from experiment k on. acc is the local data,
\* whose keys are all set by the first experiment.
CollectFrom(experiments, measure, k, acc) ==
    IF k > Len(experiments) THEN Return(acc)
    ELSE LET experiment_name == experiments[k].key
             experiment      == experiments[k].value
         IN  IF ~DictHas(experiment, "problem_space") THEN Raise("KeyError")
             ELSE IF ~DictHas(experiment, measure) THEN Raise("KeyError")
             ELSE IF Len(DictGet(experiment, "problem_space"))
                       # Len(DictGet(experiment, measure))
             THEN Raise("AssertionError")
             ELSE CollectFrom(experiments, measure, k + 1,
                      [sizes       |-> IF acc.experiments = <<>>
                                       THEN DictGet(experiment, "problem_space")
                                       ELSE acc.sizes,
                       experiments |-> Append(acc.experiments, experiment_name),
                       results     |-> Append(acc.results,
                                              DictGet(experiment, measure))])

\* collect_experiments: the loop, then the assertions of lines 137-138.
\* With no experiment, data['sizes'] is a KeyError.
collect_experiments(group_name, experiments, measure) ==
    LET looped == CollectFrom(experiments, measure, 1,
                      [sizes |-> <<>>, experiments |-> <<>>, results |-> <<>>])
    IN  IF ~looped.ok THEN looped
        ELSE IF looped.value.experiments = <<>> THEN Raise("KeyError")
        ELSE IF Len(looped.value.sizes) # Len(looped.value.results[1])
        THEN Raise("AssertionError")
        ELSE IF Len(looped.value.experiments) # Len(looped.value.results)
        THEN Raise("AssertionError")
        ELSE looped

RECURSIVE MinLen(_)
\* The length of zip(*results): that of the shortest list, 0 for no list.
MinLen(results) ==
    IF results = <<>> THEN 0
    ELSE IF Len(results) = 1 THEN Len(results[1])
    ELSE LET m == MinLen(Tail(results))
         IN  IF Len(results[1]) < m THEN Len(results[1]) ELSE m

RECURSIVE HStack(_, _, _)
\* sum(zip(*results), ()) from tuple k of the zip on.
HStack(results, k, n) ==
    IF k > n THEN <<>>
    ELSE [e \in 1..Len(results) |-> results[e][k]] \o HStack(results, k + 1, n)

\* plot_measure up to the data handed to the figure: the assertion of line
\* 144 and the bar heights y of line 146.
plot_measure(group_name, experiments, measure) ==
    LET c == collect_experiments(group_name, experiments, measure)
    IN  IF ~c.ok THEN c
        ELSE IF Len(c.value.sizes) # MinLen(c.value.results)
        THEN Raise("AssertionError")
        ELSE Return([group   |-> group_name,
                     measure |-> measure,
                     factors |-> c.value.experiments,
                     y       |-> HStack(c.value.results, 1,
                                        MinLen(c.value.results))])

\* ------------------------------------------------------------ report inputs

\* The directory main lists.
CsvDir == "results"

\* A header with the size column and the six plotted measures.
ReportHeader ==
    <<"Group", "Experiment", "Problem space", "Baseline", "us/Iteration",
      "Iterations/sec", "Min (us)", "Mean (us)", "Max (us)">>

\* A header without the Max (us) column.
ShortHeader == SubSeq(ReportHeader, 1, Len(ReportHeader) - 1)

ReportRow(group_name, experiment_name, size) ==
    DataRow(group_name, experiment_name, size, Len(ReportHeader))

\* The csv files of the directory: the name and the rows, header first.
ReportFiles == {
    [name |-> "sort.csv",
     rows |-> <<ReportHeader, ReportRow("sort", "ExpA", "10"),
                ReportRow("sort", "ExpB", "10")>>],
    [name |-> "merged.csv",
     rows |-> <<ReportHeader, ReportRow("sort", "ExpA", "10"),
                ReportHeader, ReportRow("find", "ExpA", "10")>>],
    [name |-> "sort_find.csv",
     rows |-> <<ReportHeader, ReportRow("sort", "ExpA", "10"),
                ReportHeader, ReportRow("find", "ExpA", "10")>>],
    [name |-> "bad.csv",
     rows |-> <<ReportHeader, ReportRow("sort", "ExpA", "10"),
                <<"find", "ExpA", "N/A", "1.0", "1.0", "1.0", "1.0", "1.0", "1.0">>>>],
    [name |-> "cut.csv",
     rows |-> <<ReportHeader, ReportRow("sort", "ExpA", "10"),
                SubSeq(ReportRow("find", "ExpA", "10"), 1, 5)>>],
    [name |-> "nomax.csv",
     rows |-> <<ShortHeader, SubSeq(ReportRow("sort", "ExpA", "10"), 1,
                                    Len(ShortHeader))>>],
    [name |-> "empty.csv",
     rows |-> <<ReportHeader>>] }

\* The rows of the file at a path of the directory.
RowsOf(path) ==
    (CHOOSE file \in ReportFiles : file.name = basename(path)).rows

RECURSIVE Listings(_)
\* The lists of at most n distinct files os.listdir may give, each joined to
\* the directory (lines 234-236).
Listings(n) ==
    IF n = 0 THEN { <<>> }
    ELSE LET shorter == Listings(n - 1)
             paths   == { join(CsvDir, file.name) : file \in ReportFiles }
         IN  shorter \cup
             UNION { { Append(l, path) :
                         path \in paths \ { l[k] : k \in 1..Len(l) } } :
                     l \in { s \in shorter : Len(s) = n - 1 } }

\* ---------------------------------------------------- generate_html_reports

\* Lines 173-176: the name of the report of one group.
html_file_name(csv_file, group_name) ==
    LET html_file == splitext_root(csv_file)
    IN  (IF StrIn(group_name, html_file)
         THEN html_file
         ELSE html_file \o "_" \o group_name) \o ".html"

\* Lines 182-187: the measures plotted, in the order of the calls.
PlottedMeasures ==
    <<"baseline", "mean_time", "min_time", "max_time", "iteration_time",
      "iteration_per_sec">>

RECURSIVE PlotsFrom(_, _, _)
\* Lines 181-188: the list of plots from call k on; the first call that
\* raises ends the list.
PlotsFrom(group_name, experiments, k) ==
    IF k > Len(PlottedMeasures) THEN Return(<<>>)
    ELSE LET plot == plot_measure(group_name, experiments, PlottedMeasures[k])
         IN  IF ~plot.ok THEN plot
             ELSE LET rest == PlotsFrom(group_name, experiments, k + 1)
                  IN  IF ~rest.ok THEN rest
                      ELSE Return(<<plot.value>> \o rest.value)

\* Lines 172-189: the body of the loop for one group, up to the entry
\* appended to html_files.
report_group(group_name, group) ==
    LET csv_file  == group.file
        html_file == html_file_name(csv_file, group_name)
        plots     == PlotsFrom(group_name, group.experiments, 1)
    IN  IF ~plots.ok THEN plots
        ELSE Return([entry |-> <<basename(csv_file), group_name, html_file>>,
                     plots |-> Len(plots.value)])

\* ------------------------------------------------------------------- state

\* The variables of read_results and plot_measure.
parse_vars ==
    <<header, i, data, status, error, result, consumed, collected, plotted>>

\* The variables of generate_reports.
report_vars ==
    <<csv_files, file_no, pc, parsed, group_no, group_html, html_files, saved,
      index_html, failed_in>>

vars == <<parse_vars, report_vars>>

\* read_results is entered with an open file.
ParseInit ==
    /\ header = <<>>
    /\ i = 0
    /\ data = EmptyData
    /\ status = "reading"
    /\ error = ""
    /\ result = None
    /\ consumed = <<>>
    /\ collected = [group |-> None, measure |-> None, call |-> NotCalled]
    /\ plotted = NotCalled

\* generate_reports is entered with the list of files (line 201).
ReportInit ==
    /\ file_no = 1
    /\ pc = "read_results"
    /\ parsed = EmptyData
    /\ group_no = 0
    /\ group_html = <<>>
    /\ html_files = <<>>
    /\ saved = <<>>
    /\ index_html = [written |-> FALSE, entries |-> <<>>]
    /\ failed_in = None

\* One call of read_results, then plot_measure on what it returned.
Init ==
    /\ ParseInit
    /\ csv_files = <<ParseFile>>
    /\ ReportInit

\* Lines 87-89: row 0 is the header.
ReadHeader ==
    /\ status = "reading"
    /\ i = 0
    /\ \E h \in Headers : header' = h
    /\ i' = 1
    /\ UNCHANGED <<data, status, error, result, consumed, collected, plotted>>
    /\ UNCHANGED report_vars

\* Lines 90-120: one later row.
ReadRow ==
    /\ status = "reading"
    /\ i >= 1
    /\ i <= MaxRows
    /\ \E row \in Rows(header) :
          LET r == ProcessRow(data, header, row, ParseFile)
          IN  /\ consumed' = Append(consumed, row)
              /\ i' = i + 1
              /\ IF r.ok
                 THEN /\ data' = r.value
                      /\ UNCHANGED <<status, error>>
                 ELSE /\ status' = "raised"
                      /\ error' = r.err
                      /\ UNCHANGED data
    /\ UNCHANGED <<header, result, collected, plotted>>
    /\ UNCHANGED report_vars

\* Line 121: the reader is exhausted, data is returned.
EndOfFile ==
    /\ status = "reading"
    /\ status' = "returned"
    /\ result' = data
    /\ UNCHANGED <<header, i, data, error, consumed, collected, plotted>>
    /\ UNCHANGED report_vars

\* The measures plotted for a returned result set.
PlotMeasures == {"baseline", "mean_time"}

\* Lines 141-144: plot_measure on one group of the returned result set.
PlotMeasure ==
    /\ status = "returned"
    /\ collected.group = None
    /\ \E g \in 1..Len(result), measure \in PlotMeasures :
          /\ collected' = [group   |-> result[g].key,
                           measure |-> measure,
                           call    |-> collect_experiments(result[g].key,
                                           result[g].value.experiments, measure)]
          /\ plotted' = plot_measure(result[g].key,
                                     result[g].value.experiments, measure)
    /\ UNCHANGED <<header, i, data, status, error, result, consumed>>
    /\ UNCHANGED report_vars

Next == ReadHeader \/ ReadRow \/ EndOfFile \/ PlotMeasure

Spec == Init /\ [][Next]_vars


\* ------------------------------------------------------- generate_reports

\* main, lines 232-241: the files of a directory, in the order of listdir.
InitReports ==
    /\ ParseInit
    /\ csv_files \in Listings(MaxFiles)
    /\ ReportInit

\* Line 203: read_results on the next file; an exception ends the run.
ReadResults ==
    /\ pc = "read_results"
    /\ file_no <= Len(csv_files)
    /\ LET call == read_results(csv_files[file_no], RowsOf(csv_files[file_no]))
       IN  IF call.ok
           THEN /\ parsed' = call.value
                /\ pc' = "generate_html_reports"
                /\ UNCHANGED failed_in
           ELSE /\ pc' = "raised"
                /\ failed_in' = "read_results"
                /\ UNCHANGED parsed
    /\ UNCHANGED <<csv_files, file_no, group_no, group_html, html_files, saved,
                   index_html>>
    /\ UNCHANGED parse_vars

\* Lines 168-170: generate_html_reports asserts data and starts its list.
EnterHtmlReports ==
    /\ pc = "generate_html_reports"
    /\ IF parsed = EmptyData
       THEN /\ pc' = "raised"
            /\ failed_in' = "generate_html_reports"
            /\ UNCHANGED <<group_no, group_html>>
       ELSE /\ pc' = "group"
            /\ group_no' = 1
            /\ group_html' = <<>>
            /\ UNCHANGED failed_in
    /\ UNCHANGED <<csv_files, file_no, parsed, html_files, saved, index_html>>
    /\ UNCHANGED parse_vars

\* Lines 171-196: the report of one group is plotted, listed and saved.
ReportGroup ==
    /\ pc = "group"
    /\ group_no <= Len(parsed)
    /\ LET call == report_group(parsed[group_no].key, parsed[group_no].value)
       IN  IF call.ok
           THEN /\ group_html' = Append(group_html, call.value.entry)
                /\ saved' = Append(saved, [html_file |-> call.value.entry[3],
                                           csv_file  |-> csv_files[file_no],
                                           group     |-> parsed[group_no].key,
                                           plots     |-> call.value.plots])
                /\ group_no' = group_no + 1
                /\ UNCHANGED <<pc, failed_in>>
           ELSE /\ pc' = "raised"
                /\ failed_in' = "generate_html_reports"
                /\ UNCHANGED <<group_html, saved, group_no>>
    /\ UNCHANGED <<csv_files, file_no, parsed, html_files, index_html>>
    /\ UNCHANGED parse_vars

\* Lines 197 and 204: the list is returned and added to html_files.
ReturnHtmlFiles ==
    /\ pc = "group"
    /\ group_no > Len(parsed)
    /\ html_files' = html_files \o group_html
    /\ file_no' = file_no + 1
    /\ pc' = "read_results"
    /\ UNCHANGED <<csv_files, parsed, group_no, group_html, saved, index_html,
                   failed_in>>
    /\ UNCHANGED parse_vars

\* Lines 206-228: after the last file, index.html lists html_files.
WriteIndex ==
    /\ pc = "read_results"
    /\ file_no > Len(csv_files)
    /\ index_html' = [written |-> TRUE, entries |-> html_files]
    /\ pc' = "done"
    /\ UNCHANGED <<csv_files, file_no, parsed, group_no, group_html,
                   html_files, saved, failed_in>>
    /\ UNCHANGED parse_vars

NextReports ==
    ReadResults \/ EnterHtmlReports \/ ReportGroup \/ ReturnHtmlFiles
        \/ WriteIndex

SpecReports == InitReports /\ [][NextReports]_vars

\* ------------------------------------------------------- claims on Spec

\* The label is the value of a Column member, up to case.
KnownLabel(label) == MemberFrom(lower(label), 1) > 0

\* The row is a repeated header: columns 0 and 1 both carry known labels.
HeaderRepeat(row) == Len(row) >= 2 /\ KnownLabel(row[1]) /\ KnownLabel(row[2])

NotHeaderRepeat(row) == ~HeaderRepeat(row)

\* The rows read so far without the repeated headers.
DataRows == SelectSeq(consumed, NotHeaderRepeat)

\* The series of every experiment of the result set d, as a set of
\* [group, experiment, measure, series] records.
AllSeries(d) ==
    { [group      |-> d[g].key,
       experiment |-> d[g].value.experiments[e].key,
       measure    |-> d[g].value.experiments[e].value[m].key,
       series     |-> d[g].value.experiments[e].value[m].value] :
      <<g, e, m>> \in
          { t \in (1..Len(d)) \X (1..MaxRows) \X (1..Len(Column)) :
                /\ t[2] <= Len(d[t[1]].value.experiments)
                /\ t[3] <= Len(d[t[1]].value.experiments[t[2]].value) } }

\* C1: whenever read_results returns, all series of one experiment of the
\* returned result set have the same length.
C1_EqualSeriesLengths ==
    status = "returned" =>
        \A a, b \in AllSeries(result) :
            (a.group = b.group /\ a.experiment = b.experiment)
                => Len(a.series) = Len(b.series)

\* A returned result set with an experiment of two series of two values.
C1_Witness ==
    /\ status = "returned"
    /\ \E a, b \in AllSeries(result) :
          /\ a.group = b.group /\ a.experiment = b.experiment
          /\ a.measure # b.measure
          /\ Len(a.series) = 2

\* C2: repeated-header rows leave the parse untouched: what read_results
\* has built, returned or raised after the rows read so far is what it
\* builds, returns or raises on the same rows without the repeated headers.
C2_HeaderRepeatsIgnored ==
    i >= 1 =>
        LET clean == ReadRows(EmptyData, header, DataRows, ParseFile)
        IN  /\ (status = "raised") = ~clean.ok
            /\ status = "raised" => error = clean.err
            /\ status # "raised" => data = clean.value
            /\ status = "returned" => result = clean.value

\* A returned, non-empty result set of a file with a repeated header between
\* two data rows.
C2_Witness ==
    /\ status = "returned"
    /\ Len(consumed) >= 3
    /\ ~HeaderRepeat(consumed[1])
    /\ HeaderRepeat(consumed[2])
    /\ ~HeaderRepeat(consumed[3])
    /\ result # EmptyData

\* A header column at index >= 2 carries a label of no Column member.
UnknownLabel == \E j \in 3..Len(header) : ~KnownLabel(header[j])

NumericChars == DigitSet \cup {".", "+", "-"}

\* The cell is no number: it holds a character that no numeric literal has.
NonNumeric(cell) ==
    \/ cell = ""
    \/ \E k \in 1..Len(cell) : CharAt(cell, k) \notin NumericChars

\* Two measures are fed by different numbers of header columns, so that a
\* row leaves their series with unequal lengths.
UnequalFeeds ==
    \E cols \in { { <<j, MemberFrom(lower(header[j]), 1)>> : j \in 3..Len(header) } } :
        \E a, b \in cols :
            Cardinality({ c \in cols : c[2] = a[2] })
                # Cardinality({ c \in cols : c[2] = b[2] })

\* The data row is shorter than the header or has a non-numeric cell in a
\* measure column.
Malformed(row) ==
    \/ Len(row) < Len(header)
    \/ \E j \in 3..Len(header) : j <= Len(row) /\ NonNumeric(row[j])

\* C5: once a malformed data row has been read (a row shorter than the
\* header, a row with a non-numeric cell in a measure column, or any data row
\* when it leaves the series of its experiment with unequal lengths),
\* read_results has raised and returns no result set, however many rows
\* preceded it.
C5_NoPartialParse ==
    (\/ \E k \in 1..Len(consumed) :
            ~HeaderRepeat(consumed[k]) /\ Malformed(consumed[k])
     \/ DataRows # <<>> /\ UnequalFeeds)
    => (status = "raised" /\ result = None)

\* Two valid rows were accumulated before a row with a non-numeric cell made
\* the parse raise.
C5_Witness ==
    /\ status = "raised"
    /\ error = "ValueError"
    /\ Len(consumed) = 3
    /\ Cardinality(AllSeries(data)) >= 2
    /\ \A k \in 1..2 : ~HeaderRepeat(consumed[k]) /\ ~Malformed(consumed[k])

\* The number of data rows read for the group and the experiment.
RowCount(group_name, experiment_name) ==
    Len(SelectSeq(DataRows,
            LAMBDA row : Len(row) >= 2 /\ row[1] = group_name
                         /\ row[2] = experiment_name))

\* C9: while read_results has not raised, every series holds one value per
\* data row read for its group and experiment.
C9_OneValuePerRow ==
    status # "raised" =>
        \A a \in AllSeries(data) :
            Len(a.series) = RowCount(a.group, a.experiment)

\* The experiments of the group plot_measure was called on.
CollectedExperiments == DictGet(result, collected.group).experiments

\* C3: whenever collect_experiments returns, sizes is as long as the values
\* of every experiment, and there are as many labels as value lists; a group
\* whose experiments have different numbers of rows makes it raise.
C3_CollectLengthsAgree ==
    collected.call.ok =>
        /\ \A k \in 1..Len(collected.call.value.results) :
              Len(collected.call.value.sizes) = Len(collected.call.value.results[k])
        /\ Len(collected.call.value.experiments) = Len(collected.call.value.results)

\* C10: collect_experiments raises when two experiments of the group have
\* problem-space series that differ in values or in length.
C10_SharedSizesAsserted ==
    (/\ collected.group # None
     /\ \E a, b \in 1..Len(CollectedExperiments) :
           /\ DictHas(CollectedExperiments[a].value, "problem_space")
           /\ DictHas(CollectedExperiments[b].value, "problem_space")
           /\ DictGet(CollectedExperiments[a].value, "problem_space")
                # DictGet(CollectedExperiments[b].value, "problem_space"))
    => ~collected.call.ok

\* A measure column of the header resolves to the measure.
HeaderHas(measure) ==
    \E j \in 3..Len(header) : Column_from_name(header[j]) = measure

RECURSIVE FirstAppearance(_, _)
\* The names in order of first appearance, after those already seen.
FirstAppearance(names, seen) ==
    IF names = <<>> THEN <<>>
    ELSE IF Head(names) \in seen THEN FirstAppearance(Tail(names), seen)
    ELSE <<Head(names)>> \o FirstAppearance(Tail(names), seen \cup {Head(names)})

\* The data rows of the group, in row order.
GroupRows(group_name) ==
    SelectSeq(DataRows, LAMBDA row : row[1] = group_name)

\* The experiment names of the group in order of first appearance in the file.
ExpectedLabels(group_name) ==
    LET rows == GroupRows(group_name)
    IN  FirstAppearance([k \in 1..Len(rows) |-> rows[k][2]], {})

RECURSIVE CellValues(_, _, _)
\* The values of the cells of the row in the columns of the measure, from
\* header column j on.
CellValues(row, measure, j) ==
    IF j > Len(header) THEN <<>>
    ELSE (IF Column_from_name(header[j]) = measure
          THEN <<read_number(row[j]).value>> ELSE <<>>)
         \o CellValues(row, measure, j + 1)

RECURSIVE SeriesOfRows(_, _)
SeriesOfRows(rows, measure) ==
    IF rows = <<>> THEN <<>>
    ELSE CellValues(Head(rows), measure, 3) \o SeriesOfRows(Tail(rows), measure)

\* The cell values of the measure in the rows of the experiment, in row order.
ExpectedSeries(group_name, experiment_name, measure) ==
    SeriesOfRows(SelectSeq(GroupRows(group_name),
                           LAMBDA row : row[2] = experiment_name),
                 measure)

\* C6: for a parsed group and a measure of the header (the header naming
\* Problem space too), collect_experiments returns the experiment names in
\* order of first appearance in the file, for each of them the cell values
\* of the measure in row order, and as sizes the Problem space values of the
\* first experiment in row order, whatever the order of the rows.
C6_CollectedShape ==
    (/\ collected.group # None
     /\ HeaderHas(collected.measure)
     /\ HeaderHas("problem_space"))
    => /\ collected.call.ok
       /\ collected.call.value.experiments = ExpectedLabels(collected.group)
       /\ Len(collected.call.value.results) = Len(ExpectedLabels(collected.group))
       /\ \A k \in 1..Len(collected.call.value.results) :
             collected.call.value.results[k]
                 = ExpectedSeries(collected.group,
                                  ExpectedLabels(collected.group)[k],
                                  collected.measure)
       /\ collected.call.value.sizes
             = ExpectedSeries(collected.group,
                              ExpectedLabels(collected.group)[1],
                              "problem_space")

IntValue(n) == [type |-> "int", num |-> n, den |-> 1]

FloatValue(n) == [type |-> "float", num |-> n, den |-> 1]

\* The rows G1,ExpA,10,1.0 / G1,ExpB,10,2.0 / G1,ExpA,20,1.0 /
\* G1,ExpB,20,2.0, interleaved, aggregated for Baseline: sizes = [10, 20],
\* labels = [ExpA, ExpB], values = [[1.0, 1.0], [2.0, 2.0]].
C6_Witness ==
    /\ header = <<"Group", "Experiment", "Problem space", "Baseline">>
    /\ consumed = << <<"G1", "ExpA", "10", "1.0">>, <<"G1", "ExpB", "10", "2.0">>,
                     <<"G1", "ExpA", "20", "1.0">>, <<"G1", "ExpB", "20", "2.0">> >>
    /\ collected.group = "G1"
    /\ collected.measure = "baseline"
    /\ collected.call.ok
    /\ collected.call.value.sizes = <<IntValue(10), IntValue(20)>>
    /\ collected.call.value.experiments = <<"ExpA", "ExpB">>
    /\ collected.call.value.results
          = << <<FloatValue(1), FloatValue(1)>>, <<FloatValue(2), FloatValue(2)>> >>

\* ------------------------------------------------ claims on SpecReports

\* C7: the reports of two groups of different names, of one file or of two
\* files of the run, are saved under different file names.
C7_DistinctReportNames ==
    \A a, b \in 1..Len(saved) :
        saved[a].group # saved[b].group
            => saved[a].html_file # saved[b].html_file

\* The file at the path has a data row shorter than its header or with a
\* non-numeric cell in a measure column.
MalformedFile(path) ==
    LET rows == RowsOf(path)
    IN  \E k \in 2..Len(rows) :
            /\ ~HeaderRepeat(rows[k])
            /\ \/ Len(rows[k]) < Len(rows[1])
               \/ \E j \in 3..Len(rows[k]) : NonNumeric(rows[k][j])

\* The position of the path in csv_files.
FilePosition(path) == CHOOSE f \in 1..Len(csv_files) : csv_files[f] = path

\* C8: no report is ever saved for a malformed file of the run and the run
\* of a list with a malformed file never writes index.html; when
\* read_results raised, no report of its file was saved and index.html was
\* not written; every saved report is of a file whose parse had returned;
\* reports are saved in the order of csv_files and index.html lists exactly
\* the saved reports, in the order they were saved.
C8_NoPartialReport ==
    /\ \A f \in 1..Len(csv_files) :
          MalformedFile(csv_files[f])
              => /\ ~index_html.written
                 /\ \A k \in 1..Len(saved) : saved[k].csv_file # csv_files[f]
    /\ failed_in = "read_results"
          => /\ ~index_html.written
             /\ \A k \in 1..Len(saved) : saved[k].csv_file # csv_files[file_no]
    /\ \A k \in 1..Len(saved) :
          \/ FilePosition(saved[k].csv_file) < file_no
          \/ FilePosition(saved[k].csv_file) = file_no /\ pc = "group"
    /\ \A a, b \in 1..Len(saved) :
          a < b => FilePosition(saved[a].csv_file) <= FilePosition(saved[b].csv_file)
    /\ index_html.written
          => index_html.entries
               = [k \in 1..Len(saved) |->
                     <<basename(saved[k].csv_file), saved[k].group,
                       saved[k].html_file>>]

\* The reports of a first file were saved, then read_results raised on a
\* second file whose first data row is valid and whose second is not.
C8_Witness ==
    /\ pc = "raised"
    /\ failed_in = "read_results"
    /\ file_no = 2
    /\ Len(saved) >= 1
    /\ MalformedFile(csv_files[2])
    /\ Len(RowsOf(csv_files[2])) = 3
    /\ ~index_html.written

====
